---- MODULE Spec2Model ----
(***************************************************************************)
(* A model of Toasa/regexp: the tokenizer (package token) and the NFA      *)
(* generator and simulator (package nfa), both in src/token/token.go, and  *)
(* the driver in src/unnamed/part_000.                                     *)
(*                                                                         *)
(* Characters (Go runes) are their code points: 'a' = 97, 'b' = 98,        *)
(* 'c' = 99, 'Z' = 90, '[' = 91, '|' = 124, '*' = 42.                      *)
(* A *State is its address in the heap (1, 2, ...; 0 is nil); the ID field *)
(* is what newState stores there, so that two states with one ID can be    *)
(* told apart.                                                             *)
(* A parser.Node tree is the sequence of its nodes in post-order; the      *)
(* recursion of Generator.gen is run with an explicit stack of returned    *)
(* fragments.                                                              *)
(***************************************************************************)
EXTENDS Integers, Sequences, FiniteSets, TLC

VARIABLES
    regexp,      \* Tokenize: the argument
    pos,         \* Tokenize: how many characters the range loop has consumed
    tokens,      \* Tokenize: the local slice tokens
    tpc,         \* main/Tokenize: "loop", "exited", "returned", "Parse"
    ret,         \* what Tokenize returned to main (<<>> before it returns)
    ast,         \* CreateNFA: the argument, nodes in post-order
    next,        \* gen: how many nodes of ast have been generated
    frags,       \* gen: the fragments returned and not yet consumed
    heap,        \* the State objects allocated, by address
    StateCount,  \* Generator.StateCount
    nfa,         \* what CreateNFA returned (NilNFA before it returns)
    accepted,    \* whether Accept has been called on nfa
    subject,     \* Accept: the last argument
    result,      \* Accept: the last return value
    dot,         \* DumpDOT: the lines the last call printed (<<>> before)
    dotPrev      \* DumpDOT: the lines the call before that printed

tokVars == <<regexp, pos, tokens, tpc, ret>>
nfaVars == <<ast, next, frags, heap, StateCount, nfa, accepted, subject, result, dot, dotPrev>>
vars == <<regexp, pos, tokens, tpc, ret,
          ast, next, frags, heap, StateCount, nfa, accepted, subject, result, dot, dotPrev>>

-----------------------------------------------------------------------------
(* Bounds *)

MaxPatLen == 4
MaxNodes == 4
MaxStrLen == 4

SeqsUpTo(S, n) == UNION {[1..k -> S] : k \in 0..n}

Last(s) == s[Len(s)]

-----------------------------------------------------------------------------
(* package token *)

TK_SYMBOL == 0
TK_UNION == 1
TK_CONCAT == 2
TK_STAR == 3
TK_EOF == 4

\* the rune of the synthetic concatenation token
ConcatRune == 12539

\* the characters patterns are drawn from: a b Z | * [
PatternChars == {97, 98, 90, 124, 42, 91}

newToken(tt, value) == [Type |-> tt, Value |-> value]

isChar(c) == (97 <= c /\ c <= 122) \/ (65 <= c /\ c <= 90)

\* Mutant: a letter after '*' also gets a concatenation token.
lastTokenIsSymbol_orStar(toks) ==
    IF Len(toks) = 0 THEN FALSE ELSE Last(toks).Type \in {TK_SYMBOL, TK_STAR}

lastTokenIsSymbol(toks) ==
    IF Len(toks) = 0 THEN FALSE ELSE Last(toks).Type = TK_SYMBOL

\* One iteration of the range loop of Tokenize that ends in the append of
\* line 60: the tokens slice after it.
TokenizeAppend(toks, c) ==
    IF isChar(c)
    THEN (IF lastTokenIsSymbol(toks)
          THEN Append(toks, newToken(TK_CONCAT, ConcatRune))
          ELSE toks) \o <<newToken(TK_SYMBOL, c)>>
    ELSE IF c = 124 THEN Append(toks, newToken(TK_UNION, c))
    ELSE Append(toks, newToken(TK_STAR, c))

\* Mutant: an unexpected character is skipped and the loop goes on.
TokenizeChar_skip ==
    /\ tpc = "loop"
    /\ pos < Len(regexp)
    /\ LET c == regexp[pos + 1] IN
         /\ pos' = pos + 1
         /\ tokens' = IF isChar(c) \/ c = 124 \/ c = 42
                      THEN TokenizeAppend(tokens, c) ELSE tokens
         /\ tpc' = "loop"
    /\ UNCHANGED <<regexp, ret>>
    /\ UNCHANGED nfaVars

\* One iteration of the loop of Tokenize (lines 45-61).
TokenizeChar ==
    /\ tpc = "loop"
    /\ pos < Len(regexp)
    /\ LET c == regexp[pos + 1] IN
         IF isChar(c) \/ c = 124 \/ c = 42
         THEN /\ tokens' = TokenizeAppend(tokens, c)
              /\ pos' = pos + 1
              /\ tpc' = "loop"
         ELSE \* os.Exit(1): the process ends with c unconsumed
              /\ tpc' = "exited"
              /\ UNCHANGED <<tokens, pos>>
    /\ UNCHANGED <<regexp, ret>>
    /\ UNCHANGED nfaVars

\* The loop is over: append the EOF token and return (lines 62-63).
TokenizeReturn ==
    /\ tpc = "loop"
    /\ pos = Len(regexp)
    /\ tokens' = Append(tokens, newToken(TK_EOF, 0))
    /\ ret' = tokens'
    /\ tpc' = "returned"
    /\ UNCHANGED <<regexp, pos>>
    /\ UNCHANGED nfaVars

\* main goes on from the call of Tokenize to the call of parser.Parse.
mainParse ==
    /\ tpc = "returned"
    /\ tpc' = "Parse"
    /\ UNCHANGED <<regexp, pos, tokens, ret>>
    /\ UNCHANGED nfaVars

-----------------------------------------------------------------------------
(* package nfa: states, maps and fragments *)

\* the rune of an epsilon transition
Epsilon == 949

\* the letters the Symbol nodes of an AST are drawn from (a b) and the
\* characters of a subject string (a b c)
SymbolChars == {97, 98}
SubjectChars == {97, 98, 99}

\* A Go map[rune][]*State is a function from the keys present to sequences
\* of addresses; reading a missing key gives the nil slice.
EmptyMap == <<>>
MapGet(m, k) == IF k \in DOMAIN m THEN m[k] ELSE <<>>
MapPut(m, k, v) == [x \in (DOMAIN m) \cup {k} |-> IF x = k THEN v ELSE m[x]]

NilNFA == [States |-> <<>>, StartState |-> 0, AcceptStates |-> <<>>]

newNFA(states, start, accepts) ==
    [States |-> states, StartState |-> start, AcceptStates |-> accepts]

\* the IDs of a list of states, as a set
IDs(h, states) == {h[states[i]].ID : i \in 1..Len(states)}

Range(s) == {s[i] : i \in 1..Len(s)}

RECURSIVE removeDuplicateFrom(_, _, _, _)
removeDuplicateFrom(h, states, i, newStates) ==
    IF i > Len(states) THEN newStates
    ELSE IF h[states[i]].ID \in IDs(h, newStates)
         THEN removeDuplicateFrom(h, states, i + 1, newStates)
         ELSE removeDuplicateFrom(h, states, i + 1, Append(newStates, states[i]))

removeDuplicate(h, states) == removeDuplicateFrom(h, states, 1, <<>>)

contain(h, state, states) ==
    \E i \in 1..Len(states) : h[states[i]].ID = h[state].ID

RECURSIVE adaptEpsilonFrom(_, _, _, _)
adaptEpsilonFrom(h, states, i, nextStates) ==
    IF i > Len(states) THEN nextStates
    ELSE adaptEpsilonFrom(h, states, i + 1,
             (IF Epsilon \in DOMAIN h[states[i]].Nexts
              THEN nextStates \o h[states[i]].Nexts[Epsilon]
              ELSE nextStates) \o <<states[i]>>)

RECURSIVE adaptEpsilonElseFrom(_, _, _, _)
adaptEpsilonElseFrom(h, states, i, nextStates) ==
    IF i > Len(states) THEN nextStates
    ELSE adaptEpsilonElseFrom(h, states, i + 1,
             IF Epsilon \in DOMAIN h[states[i]].Nexts
             THEN nextStates \o h[states[i]].Nexts[Epsilon]
             ELSE Append(nextStates, states[i]))

\* Mutant: a state with epsilon transitions is replaced by their
\* destinations instead of being kept beside them.
adaptEpsilonTransition_dropSource(h, states) ==
    removeDuplicate(h, adaptEpsilonElseFrom(h, states, 1, <<>>))

adaptEpsilonTransition(h, states) ==
    removeDuplicate(h, adaptEpsilonFrom(h, states, 1, <<>>))

isInAcceptState(h, n, states) ==
    \E i \in 1..Len(states) : contain(h, states[i], n.AcceptStates)

\* the inner loop of Accept (lines 160-165)
RECURSIVE AcceptMove(_, _, _, _, _)
AcceptMove(h, curStates, c, i, nextStates) ==
    IF i > Len(curStates) THEN nextStates
    ELSE AcceptMove(h, curStates, c, i + 1,
             IF c \in DOMAIN h[curStates[i]].Nexts
             THEN nextStates \o h[curStates[i]].Nexts[c]
             ELSE nextStates)

\* the outer loop of Accept (lines 156-169), from character i on
RECURSIVE AcceptLoop(_, _, _, _)
AcceptLoop(h, curStates, str, i) ==
    IF i > Len(str) THEN curStates
    ELSE LET before == adaptEpsilonTransition(h, curStates)
             moved == removeDuplicate(h, AcceptMove(h, before, str[i], 1, <<>>))
         IN  AcceptLoop(h, adaptEpsilonTransition(h, moved), str, i + 1)

Accept(h, n, str) ==
    LET curStates == adaptEpsilonTransition(h, <<n.StartState>>) IN
      IF Len(str) = 0
      THEN isInAcceptState(h, n, curStates)
      ELSE isInAcceptState(h, n, AcceptLoop(h, curStates, str, 1))

-----------------------------------------------------------------------------
(* package nfa: DumpDOT *)

DOTLine(kind, src, dst, label) ==
    [kind |-> kind, src |-> src, dst |-> dst, label |-> label]

\* the orders in which a range over a map may visit its keys
KeyOrders(m) ==
    {o \in [1..Cardinality(DOMAIN m) -> DOMAIN m] :
        \A i, j \in DOMAIN o : i # j => o[i] # o[j]}

RECURSIVE EdgeLines(_, _, _, _, _)
\* the lines of one state's edges with its keys visited in order o, from the
\* k-th key's i-th destination on
EdgeLines(h, src, o, k, i) ==
    IF k > Len(o) THEN <<>>
    ELSE LET dstStates == h[src].Nexts[o[k]] IN
           IF i > Len(dstStates) THEN EdgeLines(h, src, o, k + 1, 1)
           ELSE <<DOTLine("edge", h[src].ID, h[dstStates[i]].ID, o[k])>>
                \o EdgeLines(h, src, o, k, i + 1)

RECURSIVE AcceptLines(_, _, _)
AcceptLines(h, n, i) ==
    IF i > Len(n.AcceptStates) THEN <<>>
    ELSE <<DOTLine("doublecircle", h[n.AcceptStates[i]].ID, 0, 0)>>
         \o AcceptLines(h, n, i + 1)

RECURSIVE AllEdgeLines(_, _, _)
\* what the loop over nfa.States may print from the i-th state on
AllEdgeLines(h, n, i) ==
    IF i > Len(n.States) THEN {<<>>}
    ELSE {a \o b : a \in {EdgeLines(h, n.States[i], o, 1, 1) :
                            o \in KeyOrders(h[n.States[i]].Nexts)},
                   b \in AllEdgeLines(h, n, i + 1)}

\* every sequence of lines a call of DumpDOT may print
DumpDOT(h, n) ==
    {<<DOTLine("digraph", 0, 0, 0), DOTLine("box", h[n.StartState].ID, 0, 0)>>
       \o AcceptLines(h, n, 1) \o e \o <<DOTLine("close", 0, 0, 0)>> :
     e \in AllEdgeLines(h, n, 1)}

-----------------------------------------------------------------------------
(* package nfa: the generator *)

\* A generator is [heap, StateCount]; each operation returns the generator
\* after it together with what the Go function returns.

newState_sameID(G) ==
    [G |-> [heap |-> Append(G.heap, [ID |-> G.StateCount, Nexts |-> EmptyMap]),
            StateCount |-> G.StateCount],
     p |-> Len(G.heap) + 1]

newState(G) ==
    [G |-> [heap |-> Append(G.heap, [ID |-> G.StateCount, Nexts |-> EmptyMap]),
            StateCount |-> G.StateCount + 1],
     p |-> Len(G.heap) + 1]

\* tmp := s.Nexts[symbol]; tmp = append(tmp, dst); s.Nexts[symbol] = tmp
AppendNext(h, s, symbol, dst) ==
    [h EXCEPT ![s].Nexts = MapPut(@, symbol, Append(MapGet(@, symbol), dst))]

\* s.Nexts[symbol] = dsts
SetNext(h, s, symbol, dsts) ==
    [h EXCEPT ![s].Nexts = MapPut(@, symbol, dsts)]

RECURSIVE AppendNextAll(_, _, _, _, _)
\* for _, state := range states { append dst to state.Nexts[symbol] }
AppendNextAll(h, states, i, symbol, dst) ==
    IF i > Len(states) THEN h
    ELSE AppendNextAll(AppendNext(h, states[i], symbol, dst), states, i + 1, symbol, dst)

genSymbolNFA(G, symbol) ==
    LET a == newState(G)
        b == newState(a.G)
        src == a.p
        dst == b.p
    IN  [G |-> [b.G EXCEPT !.heap = AppendNext(@, src, symbol, dst)],
         nfa |-> newNFA(<<src, dst>>, src, <<dst>>)]

\* Mutant: the new start state is left out of the States list.
genUnionNFA_noStart(G, lhs, rhs) ==
    LET a == newState(G)
        start == a.p
    IN  [G |-> [a.G EXCEPT !.heap =
                    SetNext(@, start, Epsilon, <<lhs.StartState, rhs.StartState>>)],
         nfa |-> newNFA(lhs.States \o rhs.States, start,
                        lhs.AcceptStates \o rhs.AcceptStates)]

genUnionNFA(G, lhs, rhs) ==
    LET a == newState(G)
        start == a.p
    IN  [G |-> [a.G EXCEPT !.heap =
                    SetNext(@, start, Epsilon, <<lhs.StartState, rhs.StartState>>)],
         nfa |-> newNFA(<<start>> \o lhs.States \o rhs.States, start,
                        lhs.AcceptStates \o rhs.AcceptStates)]

\* Mutant: the epsilon transitions to rhs leave the start state of lhs.
genConcateNFA_fromStart(G, lhs, rhs) ==
    [G |-> [G EXCEPT !.heap =
                AppendNext(@, lhs.StartState, Epsilon, rhs.StartState)],
     nfa |-> newNFA(lhs.States \o rhs.States, lhs.StartState, rhs.AcceptStates)]

genConcateNFA(G, lhs, rhs) ==
    [G |-> [G EXCEPT !.heap =
                AppendNextAll(@, lhs.AcceptStates, 1, Epsilon, rhs.StartState)],
     nfa |-> newNFA(lhs.States \o rhs.States, lhs.StartState, rhs.AcceptStates)]

\* Mutant: the new start state is not made an accept state.
genStarNFA_startNotAccept(G, old) ==
    LET a == newState(G)
        start == a.p
        h1 == SetNext(a.G.heap, start, Epsilon, <<old.StartState>>)
        h2 == AppendNextAll(h1, old.AcceptStates, 1, Epsilon, old.StartState)
    IN  [G |-> [a.G EXCEPT !.heap = h2],
         nfa |-> newNFA(Append(old.States, start), start, old.AcceptStates)]

\* Mutant: the new start state is left out of the States list.
genStarNFA_noStart(G, old) ==
    LET a == newState(G)
        start == a.p
        h1 == SetNext(a.G.heap, start, Epsilon, <<old.StartState>>)
        h2 == AppendNextAll(h1, old.AcceptStates, 1, Epsilon, old.StartState)
    IN  [G |-> [a.G EXCEPT !.heap = h2],
         nfa |-> newNFA(old.States, start, Append(old.AcceptStates, start))]

genStarNFA(G, old) ==
    LET a == newState(G)
        start == a.p
        h1 == SetNext(a.G.heap, start, Epsilon, <<old.StartState>>)
        h2 == AppendNextAll(h1, old.AcceptStates, 1, Epsilon, old.StartState)
    IN  [G |-> [a.G EXCEPT !.heap = h2],
         nfa |-> newNFA(Append(old.States, start), start,
                        Append(old.AcceptStates, start))]

-----------------------------------------------------------------------------
(* parser.Node trees, in post-order *)

Node(type, value) == [Type |-> type, Value |-> value]

NodeKinds ==
    {Node("ND_SYMBOL", c) : c \in SymbolChars}
      \cup {Node("ND_UNION", 0), Node("ND_CONCAT", 0), Node("ND_STAR", 0)}

RECURSIVE SubtreeLen(_, _)
\* the number of nodes of the subtree whose root is t[i]; 0 when the nodes
\* before t[i] do not hold its operands
SubtreeLen(t, i) ==
    IF i < 1 THEN 0
    ELSE IF t[i].Type = "ND_SYMBOL" THEN 1
    ELSE IF t[i].Type = "ND_STAR"
         THEN (LET o == SubtreeLen(t, i - 1) IN IF o = 0 THEN 0 ELSE o + 1)
    ELSE LET r == SubtreeLen(t, i - 1)
             l == IF r = 0 THEN 0 ELSE SubtreeLen(t, i - 1 - r)
         IN  IF l = 0 THEN 0 ELSE l + r + 1

IsTree(t) == Len(t) >= 1 /\ SubtreeLen(t, Len(t)) = Len(t)

Trees == {t \in SeqsUpTo(NodeKinds, MaxNodes) : IsTree(t)}

\* node.Rhs and node.Lhs of the root of t (Lhs is also the operand of Star)
Rhs(t) == SubSeq(t, Len(t) - SubtreeLen(t, Len(t) - 1), Len(t) - 1)
Lhs(t) ==
    IF Last(t).Type = "ND_STAR" THEN SubSeq(t, 1, Len(t) - 1)
    ELSE SubSeq(t, 1, Len(t) - 1 - SubtreeLen(t, Len(t) - 1))

-----------------------------------------------------------------------------
(* Generator.gen, CreateNFA and the calls on the NFA it returns *)

TokIdle ==
    /\ regexp = <<>>
    /\ pos = 0
    /\ tokens = <<>>
    /\ tpc = "idle"
    /\ ret = <<>>

Gen == [heap |-> heap, StateCount |-> StateCount]

\* gen returns r to its caller: the generator is updated and the operands
\* the call consumed (the last k fragments) give way to its result.
Return(r, k) ==
    /\ heap' = r.G.heap
    /\ StateCount' = r.G.StateCount
    /\ frags' = Append(SubSeq(frags, 1, Len(frags) - k), r.nfa)
    /\ next' = next + 1
    /\ UNCHANGED <<ast, nfa, accepted, subject, result, dot, dotPrev>>
    /\ UNCHANGED tokVars

genSymbol ==
    /\ next < Len(ast)
    /\ ast[next + 1].Type = "ND_SYMBOL"
    /\ Return(genSymbolNFA(Gen, ast[next + 1].Value), 0)

genUnion ==
    /\ next < Len(ast)
    /\ ast[next + 1].Type = "ND_UNION"
    /\ Return(genUnionNFA(Gen, frags[Len(frags) - 1], frags[Len(frags)]), 2)

genConcat ==
    /\ next < Len(ast)
    /\ ast[next + 1].Type = "ND_CONCAT"
    /\ Return(genConcateNFA(Gen, frags[Len(frags) - 1], frags[Len(frags)]), 2)

genStar ==
    /\ next < Len(ast)
    /\ ast[next + 1].Type = "ND_STAR"
    /\ Return(genStarNFA(Gen, frags[Len(frags)]), 1)

\* the outermost gen returns and CreateNFA returns its fragment
CreateNFA ==
    /\ next = Len(ast)
    /\ nfa = NilNFA
    /\ nfa' = frags[1]
    /\ frags' = <<>>
    /\ UNCHANGED <<ast, next, heap, StateCount, accepted, subject, result, dot, dotPrev>>
    /\ UNCHANGED tokVars

\* Accept only reads the automaton, so one call from each automaton shows
\* what every call returns.
CallAccept ==
    /\ nfa # NilNFA
    /\ ~accepted
    /\ \E str \in SeqsUpTo(SubjectChars, MaxStrLen) :
         /\ subject' = str
         /\ result' = Accept(heap, nfa, str)
    /\ accepted' = TRUE
    /\ UNCHANGED <<ast, next, frags, heap, StateCount, nfa, dot, dotPrev>>
    /\ UNCHANGED tokVars

\* DumpDOT only reads the automaton; two calls are kept to compare them.
CallDumpDOT ==
    /\ nfa # NilNFA
    /\ dotPrev = <<>>
    /\ \E out \in DumpDOT(heap, nfa) :
         /\ dot' = out
         /\ dotPrev' = dot
    /\ UNCHANGED <<ast, next, frags, heap, StateCount, nfa, accepted, subject, result>>
    /\ UNCHANGED tokVars

Init ==
    /\ ast \in Trees
    /\ next = 0
    /\ frags = <<>>
    /\ heap = <<>>
    /\ StateCount = 0
    /\ nfa = NilNFA
    /\ accepted = FALSE
    /\ subject = <<>>
    /\ result = FALSE
    /\ dot = <<>>
    /\ dotPrev = <<>>
    /\ TokIdle

Next ==
    \/ genSymbol
    \/ genUnion
    \/ genConcat
    \/ genStar
    \/ CreateNFA
    \/ CallAccept
    \/ CallDumpDOT

Spec == Init /\ [][Next]_vars

-----------------------------------------------------------------------------
(* What the claims speak of *)

\* The regular language an AST denotes: Symbol c = {c}, Union = L \cup R,
\* Concat = L.R, Star = F*.
RECURSIVE InLang(_, _)
InLang(t, w) ==
    LET root == Last(t) IN
      IF root.Type = "ND_SYMBOL" THEN w = <<root.Value>>
      ELSE IF root.Type = "ND_UNION" THEN InLang(Lhs(t), w) \/ InLang(Rhs(t), w)
      ELSE IF root.Type = "ND_CONCAT"
           THEN \E k \in 0..Len(w) :
                  /\ InLang(Lhs(t), SubSeq(w, 1, k))
                  /\ InLang(Rhs(t), SubSeq(w, k + 1, Len(w)))
      ELSE \/ w = <<>>
           \/ \E k \in 1..Len(w) :
                  /\ InLang(Lhs(t), SubSeq(w, 1, k))
                  /\ InLang(t, SubSeq(w, k + 1, Len(w)))

\* Standard NFA semantics over the state graph: the states reachable from S
\* by zero or more epsilon edges ...
RECURSIVE EpsilonClosure(_, _)
EpsilonClosure(h, S) ==
    LET T == S \cup UNION {Range(MapGet(h[p].Nexts, Epsilon)) : p \in S} IN
      IF T = S THEN S ELSE EpsilonClosure(h, T)

\* ... the states reached from the start state by a path spelling the first
\* i characters of str ...
RECURSIVE Reached(_, _, _, _)
Reached(h, n, str, i) ==
    IF i = 0 THEN EpsilonClosure(h, {n.StartState})
    ELSE EpsilonClosure(h,
             UNION {Range(MapGet(h[p].Nexts, str[i])) : p \in Reached(h, n, str, i - 1)})

\* ... and whether some path from the start state to an accept state spells str.
StdAccepts(h, n, str) ==
    Reached(h, n, str, Len(str)) \cap Range(n.AcceptStates) # {}

Count(t, type) == Cardinality({i \in 1..Len(t) : t[i].Type = type})

\* The trees the grammar of the parser gives: a left-folded Union over
\* left-folded Concats over nested Stars over a Symbol.
RECURSIVE IsStarLevel(_)
IsStarLevel(t) ==
    \/ Last(t).Type = "ND_SYMBOL"
    \/ Last(t).Type = "ND_STAR" /\ IsStarLevel(Lhs(t))

RECURSIVE IsConcatLevel(_)
IsConcatLevel(t) ==
    \/ IsStarLevel(t)
    \/ Last(t).Type = "ND_CONCAT" /\ IsConcatLevel(Lhs(t)) /\ IsStarLevel(Rhs(t))

RECURSIVE IsGrammarAST(_)
IsGrammarAST(t) ==
    \/ IsConcatLevel(t)
    \/ Last(t).Type = "ND_UNION" /\ IsGrammarAST(Lhs(t)) /\ IsConcatLevel(Rhs(t))

\* the fragments that exist: those gen has returned and the final automaton
Fragments == Range(frags) \cup (IF nfa = NilNFA THEN {} ELSE {nfa})

-----------------------------------------------------------------------------
(* C1 *)

\* C1: the automaton CreateNFA returns, read under standard NFA semantics,
\* accepts a string exactly when the string is in the language of the AST.
C1_LanguageOfNFA ==
    accepted => (StdAccepts(heap, nfa, subject) <=> InLang(ast, subject))

\* a Star over a Concat, and a subject of two repetitions in its language
C1_Witness ==
    /\ accepted
    /\ Last(ast).Type = "ND_STAR"
    /\ Count(ast, "ND_CONCAT") = 1
    /\ Len(subject) = 4
    /\ InLang(ast, subject)

-----------------------------------------------------------------------------
(* C2 *)

\* C2 (as claimed): on an automaton built from an AST of the grammar, Accept
\* returns true exactly when the subset simulation with full epsilon
\* closures ends in a set holding an accept state.
C2_AcceptIsFullClosureSimulation ==
    (accepted /\ IsGrammarAST(ast)) =>
        (result <=> StdAccepts(heap, nfa, subject))

-----------------------------------------------------------------------------
(* C3 *)

AStarOrB == <<Node("ND_SYMBOL", 97), Node("ND_STAR", 0), Node("ND_SYMBOL", 98),
              Node("ND_UNION", 0)>>
AB == <<Node("ND_SYMBOL", 97), Node("ND_SYMBOL", 98), Node("ND_CONCAT", 0)>>
AStar == <<Node("ND_SYMBOL", 97), Node("ND_STAR", 0)>>

-----------------------------------------------------------------------------
(* C6 *)

\* C6: the States list of the automaton CreateNFA returns has 2k + u + s
\* entries for k Symbol, u Union and s Star nodes, and so many states were
\* allocated.
C6_StateCount ==
    nfa # NilNFA =>
      /\ Len(nfa.States) = 2 * Count(ast, "ND_SYMBOL") + Count(ast, "ND_UNION")
                             + Count(ast, "ND_STAR")
      /\ Len(nfa.States) = StateCount

C6_Witness ==
    /\ nfa # NilNFA
    /\ Count(ast, "ND_CONCAT") >= 1
    /\ Count(ast, "ND_STAR") >= 1
    /\ Len(nfa.States) = 5

-----------------------------------------------------------------------------
(* C7 *)

RECURSIVE SortedKeys(_)
SortedKeys(K) ==
    IF K = {} THEN <<>>
    ELSE LET k == CHOOSE x \in K : \A y \in K : x <= y IN
           <<k>> \o SortedKeys(K \ {k})

RECURSIVE EdgeLinesInOrder(_, _, _)
EdgeLinesInOrder(h, n, i) ==
    IF i > Len(n.States) THEN <<>>
    ELSE EdgeLines(h, n.States[i], SortedKeys(DOMAIN h[n.States[i]].Nexts), 1, 1)
         \o EdgeLinesInOrder(h, n, i + 1)

\* the opener, the box line, a doublecircle line per accept state, an edge
\* line per (source, symbol, destination) in States order, the closer
ExpectedDOT(h, n) ==
    <<DOTLine("digraph", 0, 0, 0), DOTLine("box", h[n.StartState].ID, 0, 0)>>
      \o AcceptLines(h, n, 1) \o EdgeLinesInOrder(h, n, 1)
      \o <<DOTLine("close", 0, 0, 0)>>

\* C7: whatever order the maps are iterated in, every call of DumpDOT prints
\* the same lines: those of ExpectedDOT.
C7_DumpDOTDeterministic ==
    /\ dot # <<>> => dot = ExpectedDOT(heap, nfa)
    /\ dotPrev # <<>> => dotPrev = dot

\* two calls on an automaton with symbol edges and epsilon edges
C7_Witness ==
    /\ dotPrev # <<>>
    /\ Count(ast, "ND_SYMBOL") = 2
    /\ \E i \in 1..Len(dot) : dot[i].kind = "edge" /\ dot[i].label = Epsilon
    /\ \E i \in 1..Len(dot) : dot[i].kind = "edge" /\ dot[i].label = 98

-----------------------------------------------------------------------------
(* C8 *)

\* C8 (as claimed): on every list of states of a built automaton,
\* adaptEpsilonTransition applied twice gives the IDs it gives applied once.
C8_EpsilonClosureIdempotent ==
    nfa # NilNFA =>
      \A S \in SUBSET Range(nfa.States) :
        LET states == SelectSeq(nfa.States, LAMBDA p : p \in S)
            once == adaptEpsilonTransition(heap, states)
        IN  IDs(heap, adaptEpsilonTransition(heap, once)) = IDs(heap, once)

-----------------------------------------------------------------------------
(* C9 *)

\* C9: IDs are handed out in increasing order from 0 and never reused: no
\* two states have one ID, no fragment lists a state twice, and no two
\* fragments awaiting their parent share an ID.
C9_FreshStateIDs ==
    /\ StateCount = Len(heap)
    /\ \A p \in 1..Len(heap) : heap[p].ID = p - 1
    /\ \A p, q \in 1..Len(heap) : p # q => heap[p].ID # heap[q].ID
    /\ \A f \in Fragments : \A i, j \in 1..Len(f.States) :
         i # j => heap[f.States[i]].ID # heap[f.States[j]].ID
    /\ \A i, j \in 1..Len(frags) :
         i # j => IDs(heap, frags[i].States) \cap IDs(heap, frags[j].States) = {}

\* the two operands of a Union or Concat of two equal sub-patterns have
\* been generated
C9_Witness ==
    /\ Len(frags) = 2
    /\ next = Len(ast) - 1
    /\ Lhs(ast) = Rhs(ast)
    /\ Len(frags[1].States) >= 2

-----------------------------------------------------------------------------
(* C10 *)

WellFormed(h, f) ==
    /\ f.StartState \in Range(f.States)
    /\ Range(f.AcceptStates) \subseteq Range(f.States)
    /\ \A p \in Range(f.States) : \A k \in DOMAIN h[p].Nexts :
         Range(h[p].Nexts[k]) \subseteq Range(f.States)

\* C10: every fragment a construction step returned, and the final
\* automaton, holds its start state, its accept states and every
\* destination of its states' transitions in its States list.
C10_FragmentsWellFormed == \A f \in Fragments : WellFormed(heap, f)

\* a Star and a Concat have returned
C10_Witness ==
    /\ next >= 4
    /\ Count(SubSeq(ast, 1, next), "ND_STAR") >= 1
    /\ Count(SubSeq(ast, 1, next), "ND_CONCAT") >= 1
    /\ Len(frags) = 1

-----------------------------------------------------------------------------
(* the tokenizer as main runs it *)

NFAIdle ==
    /\ ast = <<>>
    /\ next = 0
    /\ frags = <<>>
    /\ heap = <<>>
    /\ StateCount = 0
    /\ nfa = NilNFA
    /\ accepted = FALSE
    /\ subject = <<>>
    /\ result = FALSE
    /\ dot = <<>>
    /\ dotPrev = <<>>

InitTokenize ==
    /\ regexp \in SeqsUpTo(PatternChars, MaxPatLen)
    /\ pos = 0
    /\ tokens = <<>>
    /\ tpc = "loop"
    /\ ret = <<>>
    /\ NFAIdle

NextTokenize ==
    \/ TokenizeChar
    \/ TokenizeReturn
    \/ mainParse

SpecTokenize == InitTokenize /\ [][NextTokenize]_vars

-----------------------------------------------------------------------------
(* C4 *)

Supported(c) == isChar(c) \/ c = 124 \/ c = 42

\* the Values of the Symbol, Union and Star tokens, in order
RECURSIVE Untokenize(_)
Untokenize(toks) ==
    IF toks = <<>> THEN <<>>
    ELSE (IF toks[1].Type \in {TK_SYMBOL, TK_UNION, TK_STAR}
          THEN <<toks[1].Value>> ELSE <<>>) \o Untokenize(Tail(toks))

\* the number of places of the pattern where two letters are adjacent
AdjacentLetters(str) ==
    Cardinality({i \in 1..(Len(str) - 1) : isChar(str[i]) /\ isChar(str[i + 1])})

\* C4: on a pattern of letters, '|' and '*' Tokenize returns; what it returns
\* ends in the only EOF token, gives back the pattern when the Values of its
\* Symbol, Union and Star tokens are concatenated, and has a Concat token
\* exactly between two letters that were adjacent.
C4_TokenizeRoundTrip ==
    /\ (\A i \in 1..Len(regexp) : Supported(regexp[i])) => tpc # "exited"
    /\ tpc \in {"returned", "Parse"} =>
         /\ Len(ret) >= 1
         /\ \A i \in 1..Len(ret) : (ret[i].Type = TK_EOF) <=> (i = Len(ret))
         /\ Untokenize(ret) = regexp
         /\ \A i \in 1..Len(ret) :
              /\ ret[i].Type = TK_SYMBOL => isChar(ret[i].Value)
              /\ ret[i].Type = TK_UNION => ret[i].Value = 124
              /\ ret[i].Type = TK_STAR => ret[i].Value = 42
              /\ ret[i].Type = TK_CONCAT =>
                   /\ ret[i].Value = ConcatRune
                   /\ 1 < i /\ i < Len(ret)
                   /\ ret[i - 1].Type = TK_SYMBOL
                   /\ ret[i + 1].Type = TK_SYMBOL
         /\ \A i \in 1..(Len(ret) - 1) :
              ~(ret[i].Type = TK_SYMBOL /\ ret[i + 1].Type = TK_SYMBOL)
         /\ Count(ret, TK_CONCAT) = AdjacentLetters(regexp)

\* a pattern with a letter after '*' and two adjacent letters has been
\* tokenized
C4_Witness ==
    /\ tpc = "returned"
    /\ Count(ret, TK_CONCAT) = 1
    /\ \E i \in 1..(Len(ret) - 1) :
         ret[i].Type = TK_STAR /\ ret[i + 1].Type = TK_SYMBOL

-----------------------------------------------------------------------------
(* C5 *)

HasUnsupported(str) == \E i \in 1..Len(str) : ~Supported(str[i])

\* the index of the first unsupported character
FirstUnsupported(str) ==
    CHOOSE i \in 1..Len(str) :
      ~Supported(str[i]) /\ \A j \in 1..(i - 1) : Supported(str[j])

\* C5: on a pattern with an unsupported character Tokenize never gets past
\* the first one and never returns, so main never reaches the parser; once
\* the loop has met that character the process has exited.
C5_UnsupportedAborts ==
    HasUnsupported(regexp) =>
      /\ tpc \in {"loop", "exited"}
      /\ ret = <<>>
      /\ pos < FirstUnsupported(regexp)
      /\ tpc = "exited" => pos = FirstUnsupported(regexp) - 1

\* the process exited at an unsupported character with supported characters
\* before and after it
C5_Witness ==
    /\ tpc = "exited"
    /\ pos >= 1
    /\ pos + 1 < Len(regexp)
    /\ Supported(regexp[Len(regexp)])

====
